---- MODULE Spec2Model ----
(***************************************************************************)
(* A model of print_photos.py: the Quadrant Fitter (fit_image_to_quad),    *)
(* the Layout Selector (_calculate_layout_area), the Sheet Compositor      *)
(* (create_2x2_sheet, create_1x2_sheet) and the Batch Scheduler            *)
(* (process_folders).                                                      *)
(*                                                                         *)
(* The fitter and the layout selector compute with Python floats, so the   *)
(* model carries an exact implementation of IEEE-754 binary64 division,    *)
(* multiplication, addition, comparison and truncation on the values the   *)
(* program works with (positive, far from overflow and underflow).         *)
(***************************************************************************)
EXTENDS Integers, Sequences, FiniteSets, TLC

(***************************************************************************)
(* Natural numbers of any size: little-endian sequences of limbs in        *)
(* 0..Base-1 (TLC's own integers are 32 bits wide).  <<>> is zero; high    *)
(* zero limbs are allowed and ignored.                                     *)
(***************************************************************************)
LimbBits == 15
Base == 2^LimbBits

RECURSIVE BigFromInt(_)
BigFromInt(n) ==
    IF n = 0 THEN <<>> ELSE <<n % Base>> \o BigFromInt(n \div Base)

RECURSIVE BigToInt(_)
BigToInt(a) ==
    IF a = <<>> THEN 0 ELSE Head(a) + Base * BigToInt(Tail(a))

RECURSIVE BigTrim(_)
BigTrim(a) ==
    IF a # <<>> /\ a[Len(a)] = 0 THEN BigTrim(SubSeq(a, 1, Len(a) - 1)) ELSE a

RECURSIVE BigAddC(_, _, _)
BigAddC(a, b, c) ==
    IF a = <<>> /\ b = <<>>
    THEN IF c = 0 THEN <<>> ELSE <<c>>
    ELSE LET x == IF a = <<>> THEN 0 ELSE Head(a)
             y == IF b = <<>> THEN 0 ELSE Head(b)
             s == x + y + c
         IN  <<s % Base>> \o BigAddC(IF a = <<>> THEN <<>> ELSE Tail(a),
                                     IF b = <<>> THEN <<>> ELSE Tail(b),
                                     s \div Base)

BigAdd(a, b) == BigAddC(a, b, 0)

\* a - b - c for a >= b + c
RECURSIVE BigSubB(_, _, _)
BigSubB(a, b, c) ==
    IF a = <<>>
    THEN <<>>
    ELSE LET y == IF b = <<>> THEN 0 ELSE Head(b)
             d == Head(a) - y - c
         IN  <<d % Base>> \o BigSubB(Tail(a),
                                     IF b = <<>> THEN <<>> ELSE Tail(b),
                                     IF d < 0 THEN 1 ELSE 0)

BigSub(a, b) == BigTrim(BigSubB(a, b, 0))

\* a * d + c for one limb d
RECURSIVE BigMulSmallC(_, _, _)
BigMulSmallC(a, d, c) ==
    IF a = <<>>
    THEN IF c = 0 THEN <<>> ELSE <<c>>
    ELSE LET p == Head(a) * d + c
         IN  <<p % Base>> \o BigMulSmallC(Tail(a), d, p \div Base)

RECURSIVE BigMul(_, _)
BigMul(a, b) ==
    IF b = <<>>
    THEN <<>>
    ELSE BigAdd(BigMulSmallC(a, Head(b), 0), <<0>> \o BigMul(a, Tail(b)))

\* quotient and remainder of a by one limb d > 0
RECURSIVE BigDivSmall(_, _)
BigDivSmall(a, d) ==
    IF a = <<>>
    THEN [q |-> <<>>, r |-> 0]
    ELSE LET hi  == BigDivSmall(Tail(a), d)
             cur == hi.r * Base + Head(a)
         IN  [q |-> <<cur \div d>> \o hi.q, r |-> cur % d]

RECURSIVE BigCmpTop(_, _, _)
BigCmpTop(a, b, i) ==
    IF i = 0 THEN 0
    ELSE IF a[i] > b[i] THEN 1
    ELSE IF a[i] < b[i] THEN -1
    ELSE BigCmpTop(a, b, i - 1)

\* -1, 0, 1 as a < b, a = b, a > b
BigCmp(a, b) ==
    LET x == BigTrim(a)
        y == BigTrim(b)
    IN  IF Len(x) > Len(y) THEN 1
        ELSE IF Len(x) < Len(y) THEN -1
        ELSE BigCmpTop(x, y, Len(x))

RECURSIVE IntBitLen(_)
IntBitLen(n) == IF n = 0 THEN 0 ELSE 1 + IntBitLen(n \div 2)

BigBitLen(a) ==
    LET x == BigTrim(a)
    IN  IF x = <<>> THEN 0
        ELSE LimbBits * (Len(x) - 1) + IntBitLen(x[Len(x)])

\* a * 2^k
BigShl(a, k) ==
    [i \in 1..(k \div LimbBits) |-> 0] \o BigMulSmallC(a, 2^(k % LimbBits), 0)

\* floor(a / 2^k)
BigShr(a, k) ==
    LET n == k \div LimbBits
    IN  IF n >= Len(a) THEN <<>>
        ELSE BigDivSmall(SubSeq(a, n + 1, Len(a)), 2^(k % LimbBits)).q

BigIsOdd(a) == a # <<>> /\ Head(a) % 2 = 1

(***************************************************************************)
(* Python floats: [m, e] stands for m * 2^e with m < 2^MantBits (or equal  *)
(* to it, after a rounding carry).  Every operation computes the exact     *)
(* result and rounds it to nearest, ties to even, as IEEE-754 does.        *)
(***************************************************************************)
MantBits == 53

RoundToDouble(n, e) ==
    LET t == BigTrim(n)
        L == BigBitLen(t)
    IN  IF L <= MantBits
        THEN [m |-> t, e |-> e]
        ELSE LET s    == L - MantBits
                 q    == BigShr(t, s)
                 r    == BigSub(t, BigShl(q, s))
                 c    == BigCmp(r, BigShl(<<1>>, s - 1))
                 up   == c > 0 \/ (c = 0 /\ BigIsOdd(q))
             IN  [m |-> IF up THEN BigTrim(BigAdd(q, <<1>>)) ELSE BigTrim(q),
                  e |-> e + s]

FFromInt(n) == [m |-> BigFromInt(n), e |-> 0]

\* a / b for Python ints a >= 0 and 0 < b < Base: the quotient to 5 limbs
\* below the point, a sticky bit for the remainder, then one rounding
FDiv(a, b) ==
    LET d == BigDivSmall(BigShl(BigFromInt(a), 5 * LimbBits), b)
        n == BigAdd(BigShl(d.q, 1), IF d.r # 0 THEN <<1>> ELSE <<>>)
    IN  RoundToDouble(n, 0 - (5 * LimbBits + 1))

FMul(x, y) == RoundToDouble(BigMul(x.m, y.m), x.e + y.e)

FAdd(x, y) ==
    LET e == IF x.e < y.e THEN x.e ELSE y.e
    IN  RoundToDouble(BigAdd(BigShl(x.m, x.e - e), BigShl(y.m, y.e - e)), e)

FCmp(x, y) ==
    LET e == IF x.e < y.e THEN x.e ELSE y.e
    IN  BigCmp(BigShl(x.m, x.e - e), BigShl(y.m, y.e - e))

\* Python's min(x, y) and max(x, y): the first argument unless the second
\* is strictly smaller (larger)
FMin(x, y) == IF FCmp(y, x) < 0 THEN y ELSE x
FMax(x, y) == IF FCmp(y, x) > 0 THEN y ELSE x

\* int(x) for x >= 0
FTrunc(x) ==
    IF x.e >= 0 THEN BigToInt(BigShl(x.m, x.e))
                ELSE BigToInt(BigShr(x.m, 0 - x.e))

(***************************************************************************)
(* Exact rationals <<numerator, denominator>> with positive denominator,   *)
(* compared by cross-multiplication.  The claims are stated with them;     *)
(* the program never computes with them.                                   *)
(***************************************************************************)
RatLeq(a, b) == a[1] * b[2] <= b[1] * a[2]
RatMin(a, b) == IF RatLeq(a, b) THEN a ELSE b
RatMax(a, b) == IF RatLeq(a, b) THEN b ELSE a
RatEq(a, b) == a[1] * b[2] = b[1] * a[2]
RatFloorTimes(n, a) == (n * a[1]) \div a[2]

(***************************************************************************)
(* Configuration (print_photos.py, lines 12-18)                            *)
(***************************************************************************)
DPI == 300
OUTPUT_WIDTH_PX == 6 * DPI
OUTPUT_HEIGHT_PX == 4 * DPI

(***************************************************************************)
(* PhotoProcessor.fit_image_to_quad                                        *)
(***************************************************************************)
\* a faulty variant: the larger of the two ratios
FitScaleMax(img_w, img_h, quad_width, quad_height) ==
    FMax(FDiv(quad_width, img_w), FDiv(quad_height, img_h))

\* min(quad_width / img_w, quad_height / img_h)
FitScale(img_w, img_h, quad_width, quad_height) ==
    FMin(FDiv(quad_width, img_w), FDiv(quad_height, img_h))

\* (img_w * scale) * (img_h * scale)
FitArea(img_w, img_h, scale) ==
    FMul(FMul(FFromInt(img_w), scale), FMul(FFromInt(img_h), scale))

\* a faulty variant: > for >=
KeepOrientationStrict(img_w, img_h, quad_width, quad_height) ==
    FCmp(FitArea(img_w, img_h, FitScale(img_w, img_h, quad_width, quad_height)),
         FitArea(img_h, img_w, FitScale(img_h, img_w, quad_width, quad_height))) > 0

\* the test of line 62: keep the orientation iff the normal area is >= the
\* rotated area
KeepOrientation(img_w, img_h, quad_width, quad_height) ==
    LET scale_normal  == FitScale(img_w, img_h, quad_width, quad_height)
        scale_rotated == FitScale(img_h, img_w, quad_width, quad_height)
    IN  FCmp(FitArea(img_w, img_h, scale_normal),
             FitArea(img_h, img_w, scale_rotated)) >= 0

\* Image.resize raises ValueError("height and width must be > 0") for a
\* target size with a dimension below 1
ResizeRaises(new_w, new_h) == new_w < 1 \/ new_h < 1

\* new_w, new_h = int(img_w * scale), int(img_h * scale), then resize
ScaledSize(img_w, img_h, quad_width, quad_height, rotated) ==
    LET scale == FitScale(img_w, img_h, quad_width, quad_height)
        new_w == FTrunc(FMul(FFromInt(img_w), scale))
        new_h == FTrunc(FMul(FFromInt(img_h), scale))
    IN  [rotated |-> rotated, new_w |-> new_w, new_h |-> new_h,
         raised |-> ResizeRaises(new_w, new_h)]

\* the fitted image: whether it was rotated, its size, and whether resize
\* raised instead of returning it
fit_image_to_quad(img_w, img_h, quad_width, quad_height) ==
    IF KeepOrientation(img_w, img_h, quad_width, quad_height)
    THEN ScaledSize(img_w, img_h, quad_width, quad_height, FALSE)
    ELSE \* img.rotate(90, expand=True) swaps the sides
         ScaledSize(img_h, img_w, quad_width, quad_height, TRUE)

(***************************************************************************)
(* PhotoProcessor._calculate_layout_area and the layout choice of          *)
(* create_1x2_sheet                                                        *)
(***************************************************************************)
\* the region size of a layout: "1x2" is two stacked full-width regions,
\* "2x1" two side-by-side full-height regions
LayoutQuad(layout) ==
    IF layout = "1x2"
    THEN <<OUTPUT_WIDTH_PX, OUTPUT_HEIGHT_PX \div 2>>
    ELSE <<OUTPUT_WIDTH_PX \div 2, OUTPUT_HEIGHT_PX>>

\* a faulty variant: the second region starts where the first one does
LayoutPositionsSame(layout) == << <<0, 0>>, <<0, 0>> >>

\* positions = [(0, 0), (quad_width, 0)] or [(0, 0), (0, quad_height)]
LayoutPositions(layout) ==
    IF layout = "2x1"
    THEN << <<0, 0>>, <<LayoutQuad(layout)[1], 0>> >>
    ELSE << <<0, 0>>, <<0, LayoutQuad(layout)[2]>> >>

\* max(area_normal, area_rotated) of one image in a region
BestArea(img_w, img_h, quad_width, quad_height) ==
    FMax(FitArea(img_w, img_h, FitScale(img_w, img_h, quad_width, quad_height)),
         FitArea(img_h, img_w, FitScale(img_h, img_w, quad_width, quad_height)))

\* total_area after the loop over processed_images[:2]: a float
RECURSIVE TotalArea(_, _, _)
TotalArea(images, n, layout) ==
    IF n = 0
    THEN FFromInt(0)
    ELSE FAdd(TotalArea(images, n - 1, layout),
              BestArea(images[n].w, images[n].h,
                       LayoutQuad(layout)[1], LayoutQuad(layout)[2]))

Min2(a, b) == IF a < b THEN a ELSE b

\* 'total_area': int(total_area)
calculate_layout_area(processed, layout) ==
    FTrunc(TotalArea(processed, Min2(Len(processed), 2), layout))

\* a faulty variant: >= for >, a tie goes to "2x1"
ChooseLayoutTie(area_1x2, area_2x1) ==
    IF area_2x1 >= area_1x2 THEN "2x1" ELSE "1x2"

\* the test of line 172
ChooseLayout(area_1x2, area_2x1) ==
    IF area_2x1 > area_1x2 THEN "2x1" ELSE "1x2"

(***************************************************************************)
(* Helpers of the sheet compositor and of the scheduler                    *)
(***************************************************************************)
\* a list of files, or Python's None
NoneList == [found |-> FALSE, files |-> <<>>]
SomeList(files) == [found |-> TRUE, files |-> files]

\* Python's s[start:end] for 0 <= start <= end
Slice(s, start, end) == SubSeq(s, start + 1, Min2(end, Len(s)))

\* a faulty variant: the floor for the ceiling
math_floor(x) == FTrunc(x)

\* math.ceil of a non-negative float
math_ceil(x) ==
    LET t == FTrunc(x)
    IN  IF FCmp(FFromInt(t), x) < 0 THEN t + 1 ELSE t

\* the decimal digits of n, most significant first
RECURSIVE Digits(_)
Digits(n) == IF n < 10 THEN <<n>> ELSE Digits(n \div 10) \o <<n % 10>>

\* a faulty variant: f"{n}", no padding
FormatPlain(n) == Digits(n)

\* f"{n:03d}": zero-padded to at least three digits
Format03d(n) ==
    LET d == Digits(n)
    IN  [k \in 1..(3 - Min2(3, Len(d))) |-> 0] \o d

\* output_folder / f"big_sheet_{i+1:03d}.jpg" and its small_sheet_ twin
SheetPath(prefix, n) == [prefix |-> prefix, index |-> Format03d(n)]

\* sorted(files): the files of a folder in the order of their names
RECURSIVE SortedFiles(_)
SortedFiles(files) ==
    IF files = {}
    THEN <<>>
    ELSE LET first == CHOOSE f \in files : \A g \in files : f.name <= g.name
         IN  <<first>> \o SortedFiles(files \ {first})

\* None for a folder that does not exist (FileNotFoundError), else its
\* image files, sorted
get_image_files(folder) ==
    IF ~folder.exists THEN NoneList ELSE SomeList(SortedFiles(folder.files))

\* the four quadrants of create_2x2_sheet, in the order of positions
GridQuad == <<OUTPUT_WIDTH_PX \div 2, OUTPUT_HEIGHT_PX \div 2>>
GridPositions ==
    << <<0, 0>>, <<GridQuad[1], 0>>, <<0, GridQuad[2]>>, <<GridQuad[1], GridQuad[2]>> >>

\* a faulty variant: the fitted image is pasted at the origin of its region
PasteAtOrigin(file, slot, fitted, quad_x, quad_y, quad_width, quad_height) ==
    [name    |-> file.name,
     slot    |-> slot,
     rotated |-> fitted.rotated,
     w       |-> fitted.new_w,
     h       |-> fitted.new_h,
     x       |-> quad_x,
     y       |-> quad_y]

\* the centred paste of a fitted image into the region at (quad_x, quad_y)
Paste(file, slot, fitted, quad_x, quad_y, quad_width, quad_height) ==
    [name    |-> file.name,
     slot    |-> slot,
     rotated |-> fitted.rotated,
     w       |-> fitted.new_w,
     h       |-> fitted.new_h,
     x       |-> quad_x + (quad_width - fitted.new_w) \div 2,
     y       |-> quad_y + (quad_height - fitted.new_h) \div 2]

\* Image.new('RGB', ...): a blank sheet; none before it and after the call
NoSheet == [exists |-> FALSE, pastes |-> <<>>]
NewSheet == [exists |-> TRUE, pastes |-> <<>>]

\* sheet.paste(img_resized, (paste_x, paste_y))
Pasted(s, paste) == [s EXCEPT !.pastes = Append(@, paste)]

\* sheet.save(output_path): the file at that path now holds the sheet
Saved(files, path, content) ==
    {f \in files : f.path # path} \cup {[path |-> path, sheet |-> content]}

BIG_CHUNK_SIZE == 2
SMALL_CHUNK_SIZE == 4
BIG_PREFIX == "big_sheet_"
SMALL_PREFIX == "small_sheet_"

(***************************************************************************)
(* State                                                                   *)
(***************************************************************************)
VARIABLES
    pc,                \* the statement the program is about to run
    folders,           \* [big, small]: whether the folder exists, its image files
    unwritable,        \* the output paths at which sheet.save raises
    big_files,         \* process_folders: its locals
    small_files,
    big_sheets,
    small_sheets,
    num_sheets,
    i,
    image_paths,       \* create_*_sheet: its arguments
    output_path,
    caller,            \* who called create_*_sheet
    idx,               \* create_*_sheet: the position of its current loop
    processed_images,  \* create_1x2_sheet: its locals
    layout_1x2,
    layout_2x1,
    layout,
    sheet,             \* the sheet in memory, if any, and its pastes in order
    ret,               \* the value create_*_sheet returned last
    disk,              \* the files of the output folder
    composed,          \* history: the chunks process_folders has composed
    img,               \* fit_image_to_quad called alone: its arguments
    quad,
    img_resized,       \* and its result
    print_files,       \* the -p flag: printing is requested
    lp_fails,          \* the files for which the lp command fails
    image_files,       \* print_photos: its locals
    printed_count,
    printed,           \* history: the lp commands issued, in order
    log,               \* history: what was done to the sheets, in order
    files,             \* immich/upload.py main: the files to upload
    ALBUM_ID,          \* whether an album was given
    file_index,        \* main: the position of its loop over files
    attempt,           \* upload_with_retry: its locals
    exc_e,             \* the name e of "except Exception as e"
    success,           \* main: what upload_with_retry returned
    result,
    uploaded_files,    \* main: its three lists
    warning_album_files,
    failed_files,
    upload_calls,      \* history: the calls of upload_file, in order
    raised,            \* the exception that ended the program, if any
    check_files,       \* immich/check-uploaded.py main: files
    DELETE_FILES,      \* the -d flag
    check_i,           \* main: the position of its loop over files
    search_result,     \* main: result, what search returned
    asset_id,          \* main: asset.get("id")
    item_albums,       \* main: the album names of the asset
    deleted_files,     \* main: its two lists
    found_files,
    directory,         \* the files of the local folder
    searches,          \* history: the answers of the server to the searches
    album_failures,    \* history: the files whose album lookup raised
    remove_failures    \* history: the files for which os.remove raised

vars ==
    <<pc, folders, unwritable, big_files, small_files, big_sheets,
      small_sheets, num_sheets, i, image_paths, output_path, caller, idx,
      processed_images, layout_1x2, layout_2x1, layout, sheet, ret, disk,
      composed, img, quad, img_resized, print_files, lp_fails, image_files,
      printed_count, printed, log, files, ALBUM_ID, file_index, attempt,
      exc_e, success, result, uploaded_files, warning_album_files,
      failed_files, upload_calls, raised, check_files, DELETE_FILES,
      check_i, search_result, asset_id, item_albums, deleted_files,
      found_files, directory, searches, album_failures, remove_failures>>

schedulerVars == <<big_files, small_files, big_sheets, small_sheets, num_sheets, i>>
callVars      == <<image_paths, output_path, caller>>
layoutVars    == <<layout_1x2, layout_2x1, layout>>
fitVars       == <<img, quad, img_resized>>
envVars       == <<folders, unwritable, print_files, lp_fails>>
printVars     == <<image_files, printed_count, printed>>
uploadVars    == <<files, ALBUM_ID, file_index, attempt, exc_e, success, result,
                   uploaded_files, warning_album_files, failed_files,
                   upload_calls, raised>>
checkVars     == <<check_files, DELETE_FILES, check_i, search_result, asset_id,
                   item_albums, deleted_files, found_files, directory,
                   searches, album_failures, remove_failures>>
photoVars     == <<folders, unwritable, big_files, small_files, big_sheets,
                   small_sheets, num_sheets, i, image_paths, output_path, caller, idx,
                   processed_images, layout_1x2, layout_2x1, layout, sheet, ret, disk,
                   composed, img, quad, img_resized, print_files, lp_fails, image_files,
                   printed_count, printed, log>>

\* a decodable image file of the given size, and one Image.open fails on
ImageFile(name, w, h) == [name |-> name, ok |-> TRUE, w |-> w, h |-> h]
BadFile(name) == [name |-> name, ok |-> FALSE, w |-> 0, h |-> 0]

(***************************************************************************)
(* create_1x2_sheet(image_paths, output_path)                              *)
(***************************************************************************)
\* the statement after the call
ReturnPc(fn) ==
    IF caller = "process_folders"
    THEN IF fn = "create_1x2_sheet" THEN "big_return" ELSE "small_return"
    ELSE "returned"

\* lines 139-147: one turn of the loop that opens image_paths[:2]
Open1x2 ==
    /\ pc = "1x2_open"
    /\ idx < Len(Slice(image_paths, 0, 2))
    /\ processed_images' =
           IF image_paths[idx + 1].ok
           THEN Append(processed_images, image_paths[idx + 1])
           ELSE processed_images
    /\ idx' = idx + 1
    /\ UNCHANGED <<pc, envVars, printVars, uploadVars, checkVars, log, schedulerVars, callVars, layoutVars, sheet,
                   ret, disk, composed, fitVars>>

\* a faulty variant: nothing opened, a blank sheet is created and saved
NoImages1x2Blank ==
    /\ pc = "1x2_open"
    /\ idx >= Len(Slice(image_paths, 0, 2))
    /\ processed_images = <<>>
    /\ sheet' = NewSheet
    /\ log' = Append(log, "new")
    /\ pc' = "1x2_save"
    /\ UNCHANGED <<envVars, printVars, uploadVars, checkVars, schedulerVars, callVars, idx, processed_images,
                   layoutVars, ret, disk, composed, fitVars>>

\* lines 149-150: nothing opened, return False
NoImages1x2 ==
    /\ pc = "1x2_open"
    /\ idx >= Len(Slice(image_paths, 0, 2))
    /\ processed_images = <<>>
    /\ ret' = FALSE
    /\ log' = Append(log, "return_false")
    /\ pc' = ReturnPc("create_1x2_sheet")
    /\ UNCHANGED <<envVars, printVars, uploadVars, checkVars, schedulerVars, callVars, idx, processed_images,
                   layoutVars, sheet, disk, composed, fitVars>>

\* lines 153-165: one image, fitted to the whole sheet; an exception of
\* the fit is caught at line 212 and the call returns False
FullSheet1x2 ==
    /\ pc = "1x2_open"
    /\ idx >= Len(Slice(image_paths, 0, 2))
    /\ Len(processed_images) = 1
    /\ LET fitted == fit_image_to_quad(processed_images[1].w, processed_images[1].h,
                                       OUTPUT_WIDTH_PX, OUTPUT_HEIGHT_PX)
       IN  IF fitted.raised
           THEN /\ sheet' = NoSheet
                /\ ret' = FALSE
                /\ pc' = ReturnPc("create_1x2_sheet")
                /\ log' = log \o <<"new", "return_false">>
           ELSE /\ log' = log \o <<"new", "paste">>
                /\ sheet' = Pasted(NewSheet,
                                       Paste(processed_images[1], 0, fitted, 0, 0,
                                             OUTPUT_WIDTH_PX, OUTPUT_HEIGHT_PX))
                /\ ret' = ret
                /\ pc' = "1x2_save"
    /\ UNCHANGED <<envVars, printVars, uploadVars, checkVars, schedulerVars, callVars, idx, processed_images,
                   layoutVars, disk, composed, fitVars>>

\* lines 167-188: two images, the layout is chosen and the sheet created
SelectLayout1x2 ==
    /\ pc = "1x2_open"
    /\ idx >= Len(Slice(image_paths, 0, 2))
    /\ Len(processed_images) > 1
    /\ layout_1x2' = calculate_layout_area(processed_images, "1x2")
    /\ layout_2x1' = calculate_layout_area(processed_images, "2x1")
    /\ layout' = ChooseLayout(layout_1x2', layout_2x1')
    /\ sheet' = NewSheet
    /\ log' = Append(log, "new")
    /\ idx' = 0
    /\ pc' = "1x2_paste"
    /\ UNCHANGED <<envVars, printVars, uploadVars, checkVars, schedulerVars, callVars, processed_images, ret,
                   disk, composed, fitVars>>

\* lines 190-205: one turn of the loop that fits and pastes
Paste1x2 ==
    /\ pc = "1x2_paste"
    /\ idx < Len(processed_images) /\ idx < 2
    /\ LET fitted == fit_image_to_quad(processed_images[idx + 1].w,
                                       processed_images[idx + 1].h,
                                       LayoutQuad(layout)[1], LayoutQuad(layout)[2])
       IN  IF fitted.raised
           THEN /\ sheet' = NoSheet
                /\ ret' = FALSE
                /\ pc' = ReturnPc("create_1x2_sheet")
                /\ idx' = idx
                /\ log' = Append(log, "return_false")
           ELSE /\ log' = Append(log, "paste")
                /\ sheet' = Pasted(sheet,
                                   Paste(processed_images[idx + 1], idx, fitted,
                                         LayoutPositions(layout)[idx + 1][1],
                                         LayoutPositions(layout)[idx + 1][2],
                                         LayoutQuad(layout)[1], LayoutQuad(layout)[2]))
                /\ ret' = ret
                /\ idx' = idx + 1
                /\ pc' = IF idx + 1 < Len(processed_images) /\ idx + 1 < 2
                         THEN "1x2_paste" ELSE "1x2_save"
    /\ UNCHANGED <<envVars, printVars, uploadVars, checkVars, schedulerVars, callVars, processed_images,
                   layoutVars, disk, composed, fitVars>>

\* lines 207-210, and 212-215 when save raises
Save1x2 ==
    /\ pc = "1x2_save"
    /\ IF output_path \in unwritable
       THEN /\ ret' = FALSE /\ disk' = disk
            /\ log' = log \o <<"save_failed", "return_false">>
       ELSE /\ ret' = TRUE /\ disk' = Saved(disk, output_path, sheet.pastes)
            /\ log' = log \o <<"save", "return_true">>
    /\ sheet' = NoSheet
    /\ pc' = ReturnPc("create_1x2_sheet")
    /\ UNCHANGED <<envVars, printVars, uploadVars, checkVars, schedulerVars, callVars, idx, processed_images,
                   layoutVars, composed, fitVars>>

(***************************************************************************)
(* create_2x2_sheet(image_paths, output_path)                              *)
(***************************************************************************)
\* lines 82-92: the blank sheet
NewSheet2x2 ==
    /\ pc = "2x2_new"
    /\ sheet' = NewSheet
    /\ log' = Append(log, "new")
    /\ idx' = 0
    /\ pc' = "2x2_loop"
    /\ UNCHANGED <<envVars, printVars, uploadVars, checkVars, schedulerVars, callVars, processed_images,
                   layoutVars, ret, disk, composed, fitVars>>

\* lines 94-119: one turn of the loop; a file that does not open is
\* skipped, an exception of the fit is caught at line 126
Place2x2 ==
    /\ pc = "2x2_loop"
    /\ idx < Len(image_paths) /\ idx < 4
    /\ IF ~image_paths[idx + 1].ok
       THEN /\ idx' = idx + 1
            /\ UNCHANGED <<sheet, ret, pc, log>>
       ELSE LET fitted == fit_image_to_quad(image_paths[idx + 1].w,
                                            image_paths[idx + 1].h,
                                            GridQuad[1], GridQuad[2])
            IN  IF fitted.raised
                THEN /\ sheet' = NoSheet
                     /\ ret' = FALSE
                     /\ pc' = ReturnPc("create_2x2_sheet")
                     /\ idx' = idx
                     /\ log' = Append(log, "return_false")
                ELSE /\ log' = Append(log, "paste")
                     /\ sheet' = Pasted(sheet,
                                        Paste(image_paths[idx + 1], idx, fitted,
                                              GridPositions[idx + 1][1],
                                              GridPositions[idx + 1][2],
                                              GridQuad[1], GridQuad[2]))
                     /\ idx' = idx + 1
                     /\ UNCHANGED <<ret, pc>>
    /\ UNCHANGED <<envVars, printVars, uploadVars, checkVars, schedulerVars, callVars, processed_images,
                   layoutVars, disk, composed, fitVars>>

\* a faulty variant: a sheet without any image is a failure, as in
\* create_1x2_sheet
Save2x2Blank ==
    /\ pc = "2x2_loop"
    /\ ~(idx < Len(image_paths) /\ idx < 4)
    /\ IF output_path \in unwritable \/ sheet.pastes = <<>>
       THEN /\ ret' = FALSE /\ disk' = disk
            /\ log' = log \o <<"save_failed", "return_false">>
       ELSE /\ ret' = TRUE /\ disk' = Saved(disk, output_path, sheet.pastes)
            /\ log' = log \o <<"save", "return_true">>
    /\ sheet' = NoSheet
    /\ pc' = ReturnPc("create_2x2_sheet")
    /\ UNCHANGED <<envVars, printVars, uploadVars, checkVars, schedulerVars, callVars, idx,
                   processed_images, layoutVars, composed, fitVars>>

\* a faulty variant: the sheet is saved a second time
Save2x2Twice ==
    /\ pc = "2x2_loop"
    /\ ~(idx < Len(image_paths) /\ idx < 4)
    /\ IF output_path \in unwritable
       THEN /\ ret' = FALSE /\ disk' = disk
            /\ log' = log \o <<"save_failed", "return_false">>
       ELSE /\ ret' = TRUE /\ disk' = Saved(disk, output_path, sheet.pastes)
            /\ log' = log \o <<"save", "save", "return_true">>
    /\ sheet' = NoSheet
    /\ pc' = ReturnPc("create_2x2_sheet")
    /\ UNCHANGED <<envVars, printVars, uploadVars, checkVars, schedulerVars, callVars, idx,
                   processed_images, layoutVars, composed, fitVars>>

\* lines 121-124, and 126-129 when save raises
Save2x2 ==
    /\ pc = "2x2_loop"
    /\ ~(idx < Len(image_paths) /\ idx < 4)
    /\ IF output_path \in unwritable
       THEN /\ ret' = FALSE /\ disk' = disk
            /\ log' = log \o <<"save_failed", "return_false">>
       ELSE /\ ret' = TRUE /\ disk' = Saved(disk, output_path, sheet.pastes)
            /\ log' = log \o <<"save", "return_true">>
    /\ sheet' = NoSheet
    /\ pc' = ReturnPc("create_2x2_sheet")
    /\ UNCHANGED <<envVars, printVars, uploadVars, checkVars, schedulerVars, callVars, idx, processed_images,
                   layoutVars, composed, fitVars>>

(***************************************************************************)
(* process_folders(big_folder, small_folder, output_folder)                *)
(***************************************************************************)
\* a faulty variant: a BIG folder that is missing or empty ends the run
ProcessBigAbort ==
    /\ pc = "process_folders"
    /\ big_sheets' = 0
    /\ small_sheets' = 0
    /\ big_files' = get_image_files(folders.big)
    /\ IF ~big_files'.found \/ big_files'.files = <<>>
       THEN pc' = "done" /\ UNCHANGED <<num_sheets, i>>
       ELSE /\ num_sheets' = math_ceil(FDiv(Len(big_files'.files), BIG_CHUNK_SIZE))
            /\ i' = 0
            /\ pc' = "big_loop"
    /\ UNCHANGED <<envVars, printVars, uploadVars, checkVars, log, small_files, callVars, idx, processed_images,
                   layoutVars, sheet, ret, disk, composed, fitVars>>

\* lines 273-286: the counters, the BIG folder's files, the number of sheets
ProcessBig ==
    /\ pc = "process_folders"
    /\ big_sheets' = 0
    /\ small_sheets' = 0
    /\ big_files' = get_image_files(folders.big)
    /\ IF ~big_files'.found \/ big_files'.files = <<>>
       THEN pc' = "small_folder" /\ UNCHANGED <<num_sheets, i>>
       ELSE /\ num_sheets' = math_ceil(FDiv(Len(big_files'.files), BIG_CHUNK_SIZE))
            /\ i' = 0
            /\ pc' = "big_loop"
    /\ UNCHANGED <<envVars, printVars, uploadVars, checkVars, log, small_files, callVars, idx, processed_images,
                   layoutVars, sheet, ret, disk, composed, fitVars>>

\* lines 287-293: the next chunk of two, handed to create_1x2_sheet
BigChunk ==
    /\ pc = "big_loop"
    /\ i < num_sheets
    /\ image_paths' = Slice(big_files.files, i * BIG_CHUNK_SIZE,
                            i * BIG_CHUNK_SIZE + BIG_CHUNK_SIZE)
    /\ output_path' = SheetPath(BIG_PREFIX, i + 1)
    /\ caller' = "process_folders"
    /\ log' = Append(log, "call")
    /\ composed' = Append(composed, [pass |-> "big", chunk |-> image_paths',
                                     path |-> output_path', returned |-> FALSE,
                                     result |-> FALSE])
    /\ idx' = 0
    /\ processed_images' = <<>>
    /\ pc' = "1x2_open"
    /\ UNCHANGED <<envVars, printVars, uploadVars, checkVars, schedulerVars, layoutVars, sheet, ret, disk, fitVars>>

\* lines 293-294: the sheet counts if create_1x2_sheet returned True
BigReturn ==
    /\ pc = "big_return"
    /\ big_sheets' = IF ret THEN big_sheets + 1 ELSE big_sheets
    /\ composed' = [composed EXCEPT ![Len(composed)].returned = TRUE,
                                   ![Len(composed)].result = ret]
    /\ i' = i + 1
    /\ pc' = "big_loop"
    /\ UNCHANGED <<envVars, printVars, uploadVars, checkVars, log, big_files, small_files, small_sheets, num_sheets,
                   callVars, idx, processed_images, layoutVars, sheet, ret,
                   disk, fitVars>>

\* the loop of line 287 is over
BigDone ==
    /\ pc = "big_loop"
    /\ i >= num_sheets
    /\ pc' = "small_folder"
    /\ UNCHANGED <<envVars, printVars, uploadVars, checkVars, log, schedulerVars, callVars, idx, processed_images,
                   layoutVars, sheet, ret, disk, composed, fitVars>>

\* lines 296-306: the SMALL folder's files, the number of sheets
ProcessSmall ==
    /\ pc = "small_folder"
    /\ small_files' = get_image_files(folders.small)
    /\ IF ~small_files'.found \/ small_files'.files = <<>>
       THEN pc' = "done" /\ UNCHANGED <<num_sheets, i>>
       ELSE /\ num_sheets' = math_ceil(FDiv(Len(small_files'.files), SMALL_CHUNK_SIZE))
            /\ i' = 0
            /\ pc' = "small_loop"
    /\ UNCHANGED <<envVars, printVars, uploadVars, checkVars, log, big_files, big_sheets, small_sheets, callVars, idx,
                   processed_images, layoutVars, sheet, ret, disk, composed,
                   fitVars>>

\* lines 307-313: the next chunk of four, handed to create_2x2_sheet
SmallChunk ==
    /\ pc = "small_loop"
    /\ i < num_sheets
    /\ image_paths' = Slice(small_files.files, i * SMALL_CHUNK_SIZE,
                            i * SMALL_CHUNK_SIZE + SMALL_CHUNK_SIZE)
    /\ output_path' = SheetPath(SMALL_PREFIX, i + 1)
    /\ caller' = "process_folders"
    /\ log' = Append(log, "call")
    /\ composed' = Append(composed, [pass |-> "small", chunk |-> image_paths',
                                     path |-> output_path', returned |-> FALSE,
                                     result |-> FALSE])
    /\ pc' = "2x2_new"
    /\ UNCHANGED <<envVars, printVars, uploadVars, checkVars, schedulerVars, idx, processed_images, layoutVars,
                   sheet, ret, disk, fitVars>>

\* a faulty variant: a chunk that fails ends the run
SmallReturnAbort ==
    /\ pc = "small_return"
    /\ small_sheets' = IF ret THEN small_sheets + 1 ELSE small_sheets
    /\ composed' = [composed EXCEPT ![Len(composed)].returned = TRUE,
                                   ![Len(composed)].result = ret]
    /\ i' = i + 1
    /\ pc' = IF ret THEN "small_loop" ELSE "done"
    /\ UNCHANGED <<envVars, printVars, uploadVars, checkVars, log, big_files, small_files, big_sheets, num_sheets,
                   callVars, idx, processed_images, layoutVars, sheet, ret,
                   disk, fitVars>>

\* lines 313-314: the sheet counts if create_2x2_sheet returned True
SmallReturn ==
    /\ pc = "small_return"
    /\ small_sheets' = IF ret THEN small_sheets + 1 ELSE small_sheets
    /\ composed' = [composed EXCEPT ![Len(composed)].returned = TRUE,
                                   ![Len(composed)].result = ret]
    /\ i' = i + 1
    /\ pc' = "small_loop"
    /\ UNCHANGED <<envVars, printVars, uploadVars, checkVars, log, big_files, small_files, big_sheets, num_sheets,
                   callVars, idx, processed_images, layoutVars, sheet, ret,
                   disk, fitVars>>

\* the loop of line 307 is over: line 316, return big_sheets, small_sheets
SmallDone ==
    /\ pc = "small_loop"
    /\ i >= num_sheets
    /\ pc' = "done"
    /\ UNCHANGED <<envVars, printVars, uploadVars, checkVars, log, schedulerVars, callVars, idx, processed_images,
                   layoutVars, sheet, ret, disk, composed, fitVars>>

(***************************************************************************)
(* fit_image_to_quad called alone                                          *)
(***************************************************************************)
FitCall ==
    /\ pc = "fit"
    /\ img_resized' = fit_image_to_quad(img[1], img[2], quad[1], quad[2])
    /\ pc' = IF img_resized'.raised THEN "fit_raised" ELSE "fit_returned"
    /\ UNCHANGED <<envVars, printVars, uploadVars, checkVars, log, schedulerVars, callVars, idx, processed_images,
                   layoutVars, sheet, ret, disk, composed, img, quad>>

(***************************************************************************)
(* main and PhotoProcessor.print_photos(output_folder)                     *)
(***************************************************************************)
\* the order of two digit strings, character by character
RECURSIVE LexLess(_, _)
LexLess(a, b) ==
    IF a = <<>> THEN b # <<>>
    ELSE IF b = <<>> THEN FALSE
    ELSE IF Head(a) # Head(b) THEN Head(a) < Head(b)
    ELSE LexLess(Tail(a), Tail(b))

\* the order of two sheet names: "big_sheet_..." sorts before "small_sheet_..."
PathLess(p, q) ==
    IF p.prefix # q.prefix THEN p.prefix = BIG_PREFIX ELSE LexLess(p.index, q.index)

\* sorted(files) for the files of the output folder
RECURSIVE SortedPaths(_)
SortedPaths(paths) ==
    IF paths = {}
    THEN <<>>
    ELSE LET first == CHOOSE p \in paths : \A q \in paths \ {p} : PathLess(p, q)
         IN  <<first>> \o SortedPaths(paths \ {first})

\* lines 403-408 of main and 244-251 of print_photos: without -p nothing is
\* printed; with it the image files of the output folder are listed
MainPrint ==
    /\ pc = "done"
    /\ IF ~print_files
       THEN pc' = "exit" /\ UNCHANGED <<image_files, printed_count>>
       ELSE /\ image_files' = SomeList(SortedPaths({f.path : f \in disk}))
            /\ printed_count' = 0
            /\ pc' = IF image_files'.files = <<>> THEN "exit" ELSE "print_loop"
    /\ UNCHANGED <<envVars, uploadVars, checkVars, printed, log, schedulerVars, callVars, idx,
                   processed_images, layoutVars, sheet, ret, disk, composed,
                   fitVars>>

\* a faulty variant: a failed lp command ends the loop
PrintOneAbort ==
    /\ pc = "print_loop"
    /\ Len(printed) < Len(image_files.files)
    /\ LET img_path == image_files.files[Len(printed) + 1]
           ok       == img_path \notin lp_fails
       IN  /\ printed' = Append(printed, [path |-> img_path, ok |-> ok])
           /\ printed_count' = IF ok THEN printed_count + 1 ELSE printed_count
           /\ pc' = IF ok THEN "print_loop" ELSE "exit"
    /\ UNCHANGED <<envVars, uploadVars, checkVars, image_files, log, schedulerVars, callVars, idx,
                   processed_images, layoutVars, sheet, ret, disk, composed,
                   fitVars>>

\* lines 253-262: one turn of the loop, lp for the next file; a failure of
\* the command is caught and the loop goes on
PrintOne ==
    /\ pc = "print_loop"
    /\ Len(printed) < Len(image_files.files)
    /\ LET img_path == image_files.files[Len(printed) + 1]
           ok       == img_path \notin lp_fails
       IN  /\ printed' = Append(printed, [path |-> img_path, ok |-> ok])
           /\ printed_count' = IF ok THEN printed_count + 1 ELSE printed_count
    /\ UNCHANGED <<pc, envVars, uploadVars, checkVars, image_files, log, schedulerVars, callVars, idx,
                   processed_images, layoutVars, sheet, ret, disk, composed,
                   fitVars>>

\* line 264: the loop is over, return printed_count
PrintDone ==
    /\ pc = "print_loop"
    /\ Len(printed) >= Len(image_files.files)
    /\ pc' = "exit"
    /\ UNCHANGED <<envVars, printVars, uploadVars, checkVars, log, schedulerVars, callVars, idx,
                   processed_images, layoutVars, sheet, ret, disk, composed,
                   fitVars>>

(***************************************************************************)
(* immich/upload.py: main and upload_with_retry(filepath)                  *)
(***************************************************************************)
MAX_RETRIES == 10

\* a local name without a value, and with one
Unbound == [bound |-> FALSE, msg |-> ""]
Bound(msg) == [bound |-> TRUE, msg |-> msg]

\* the values of result: nothing yet, the JSON of the server, a text
NoResult == [kind |-> "none", has_id |-> FALSE, text |-> ""]
JsonResult(has_id) == [kind |-> "json", has_id |-> has_id, text |-> ""]
TextResult(text) == [kind |-> "text", has_id |-> FALSE, text |-> text]

\* the file main is at
filepath == files[file_index + 1]

\* lines 82-88 and 52-53: main takes the next file and calls
\* upload_with_retry, whose locals are fresh
UploadCall ==
    /\ pc = "upload_loop"
    /\ file_index < Len(files)
    /\ attempt' = 0
    /\ exc_e' = Unbound
    /\ pc' = "retry_loop"
    /\ UNCHANGED <<photoVars, checkVars, files, ALBUM_ID, file_index, success, result, uploaded_files,
                   warning_album_files, failed_files, upload_calls, raised>>

\* lines 53-59: one turn of the loop over range(max_retries): sleep, then
\* upload_file, which returns the JSON of the server or raises.  The name e
\* is bound for the except clause only: Python deletes it when the clause
\* is left, here by continue.
UploadAttempt ==
    /\ pc = "retry_loop"
    /\ attempt < MAX_RETRIES
    /\ \E ok \in BOOLEAN, has_id \in BOOLEAN :
          /\ upload_calls' = Append(upload_calls, [file |-> filepath, ok |-> ok])
          /\ IF ok
             THEN /\ success' = TRUE
                  /\ result' = JsonResult(has_id)
                  /\ pc' = "upload_record"
                  /\ UNCHANGED <<attempt, exc_e>>
             ELSE /\ exc_e' = Unbound
                  /\ attempt' = attempt + 1
                  /\ pc' = "retry_loop"
                  /\ UNCHANGED <<success, result>>
    /\ UNCHANGED <<photoVars, checkVars, files, ALBUM_ID, file_index, uploaded_files,
                   warning_album_files, failed_files, raised>>

\* line 60: the range is exhausted, return False, str(e); reading a name
\* without a value raises UnboundLocalError, which nothing catches (the call
\* of line 88 is outside any try) and which ends the program
UploadGiveUp ==
    /\ pc = "retry_loop"
    /\ attempt >= MAX_RETRIES
    /\ IF exc_e.bound
       THEN /\ success' = FALSE
            /\ result' = TextResult(exc_e.msg)
            /\ pc' = "upload_record"
            /\ UNCHANGED raised
       ELSE /\ raised' = "UnboundLocalError"
            /\ pc' = "upload_crashed"
            /\ UNCHANGED <<success, result>>
    /\ UNCHANGED <<photoVars, checkVars, files, ALBUM_ID, file_index, attempt, exc_e, uploaded_files,
                   warning_album_files, failed_files, upload_calls>>

\* lines 90-104: main records the file as uploaded, as uploaded without its
\* album (add_asset_to_album raised), or as failed, and goes on
UploadRecord ==
    /\ pc = "upload_record"
    /\ IF success
       THEN IF ALBUM_ID /\ result.has_id
            THEN \E added \in BOOLEAN :
                    IF added
                    THEN /\ uploaded_files' = Append(uploaded_files, filepath)
                         /\ UNCHANGED <<warning_album_files, failed_files>>
                    ELSE /\ warning_album_files' = Append(warning_album_files, filepath)
                         /\ UNCHANGED <<uploaded_files, failed_files>>
            ELSE /\ uploaded_files' = Append(uploaded_files, filepath)
                 /\ UNCHANGED <<warning_album_files, failed_files>>
       ELSE /\ failed_files' = Append(failed_files, <<filepath, result.text>>)
            /\ UNCHANGED <<uploaded_files, warning_album_files>>
    /\ file_index' = file_index + 1
    /\ pc' = "upload_loop"
    /\ UNCHANGED <<photoVars, checkVars, files, ALBUM_ID, attempt, exc_e, success, result,
                   upload_calls, raised>>

\* lines 106-126: the loop is over, the summary is printed
UploadSummary ==
    /\ pc = "upload_loop"
    /\ file_index >= Len(files)
    /\ pc' = "upload_exit"
    /\ UNCHANGED <<photoVars, checkVars, uploadVars>>

(***************************************************************************)
(* immich/check-uploaded.py: main, search(checksum) and albums(id)         *)
(***************************************************************************)
\* the value of dict.get(key): None when the key is missing
NoValue == [present |-> FALSE, value |-> ""]
Value(v) == [present |-> TRUE, value |-> v]

\* Python's truth of such a value: None and "" are false
Truthy(v) == v.present /\ v.value # ""

\* lines 51-53: what search returns when the request raised, which is also
\* the shape of an answer without assets
NoMatches == [count |-> 0, items |-> <<>>]

\* lines 40-53: search(checksum), given what the server did: the count and
\* the items of the answer, or the result of the except clause
search(response) ==
    IF response.raised
    THEN NoMatches
    ELSE [count |-> response.count, items |-> response.items]

\* the file main is at
check_filepath == check_files[check_i + 1]

\* lines 77-84: main takes the next file and searches for its checksum
CheckSearch(responses) ==
    /\ pc = "check_loop"
    /\ check_i < Len(check_files)
    /\ \E response \in responses :
          /\ search_result' = search(response)
          /\ searches' = Append(searches, [file |-> check_filepath,
                                           raised |-> response.raised,
                                           items |-> response.items])
    /\ pc' = "check_filter"
    /\ UNCHANGED <<photoVars, uploadVars, check_files, DELETE_FILES, check_i,
                   asset_id, item_albums, deleted_files, found_files,
                   directory, album_failures, remove_failures>>

\* a faulty variant: several matches do not keep the file
CheckFilterAny ==
    /\ pc = "check_filter"
    /\ LET asset == IF search_result.items # <<>>
                    THEN search_result.items[1] ELSE NoValue
       IN  IF search_result.count = 0
           THEN /\ check_i' = check_i + 1 /\ pc' = "check_loop"
                /\ UNCHANGED asset_id
           ELSE /\ asset_id' = asset
                /\ IF ~Truthy(asset_id')
                   THEN check_i' = check_i + 1 /\ pc' = "check_loop"
                   ELSE check_i' = check_i /\ pc' = "check_albums"
    /\ UNCHANGED <<photoVars, uploadVars, check_files, DELETE_FILES,
                   search_result, item_albums, deleted_files, found_files,
                   directory, searches, album_failures, remove_failures>>

\* lines 86-97: no match, several matches or a match without an id keep the
\* file (continue); an asset is its id, as nothing else of it is read
CheckFilter ==
    /\ pc = "check_filter"
    /\ LET asset == IF search_result.items # <<>>
                    THEN search_result.items[1] ELSE NoValue
       IN  IF search_result.count = 0 \/ search_result.count > 1
           THEN /\ check_i' = check_i + 1 /\ pc' = "check_loop"
                /\ UNCHANGED asset_id
           ELSE /\ asset_id' = asset
                /\ IF ~Truthy(asset_id')
                   THEN check_i' = check_i + 1 /\ pc' = "check_loop"
                   ELSE check_i' = check_i /\ pc' = "check_albums"
    /\ UNCHANGED <<photoVars, uploadVars, check_files, DELETE_FILES,
                   search_result, item_albums, deleted_files, found_files,
                   directory, searches, album_failures, remove_failures>>

\* lines 99-100 and 55-62: the albums of the asset; albums returns [] when
\* the request raised
CheckAlbums ==
    /\ pc = "check_albums"
    /\ \E names \in {<<>>, <<"album">>}, lookup_raised \in BOOLEAN :
          /\ item_albums' = IF lookup_raised THEN <<>> ELSE names
          /\ album_failures' = IF lookup_raised
                               THEN album_failures \cup {check_filepath}
                               ELSE album_failures
    /\ pc' = "check_delete"
    /\ UNCHANGED <<photoVars, uploadVars, check_files, DELETE_FILES, check_i,
                   search_result, asset_id, deleted_files, found_files,
                   directory, searches, remove_failures>>

\* lines 102-111: with -d the file is removed, unless os.remove raises;
\* without -d it is listed as found
CheckDelete ==
    /\ pc = "check_delete"
    /\ IF DELETE_FILES
       THEN \E remove_raised \in BOOLEAN :
               IF remove_raised
               THEN /\ remove_failures' = remove_failures \cup {check_filepath}
                    /\ UNCHANGED <<directory, deleted_files, found_files>>
               ELSE /\ directory' = directory \ {check_filepath}
                    /\ deleted_files' = Append(deleted_files, check_filepath)
                    /\ UNCHANGED <<remove_failures, found_files>>
       ELSE /\ found_files' = Append(found_files, check_filepath)
            /\ UNCHANGED <<directory, deleted_files, remove_failures>>
    /\ check_i' = check_i + 1
    /\ pc' = "check_loop"
    /\ UNCHANGED <<photoVars, uploadVars, check_files, DELETE_FILES,
                   search_result, asset_id, item_albums, searches,
                   album_failures>>

\* lines 113-133: the loop is over, the summary is printed
CheckSummary ==
    /\ pc = "check_loop"
    /\ check_i >= Len(check_files)
    /\ pc' = "check_exit"
    /\ UNCHANGED <<photoVars, uploadVars, checkVars>>

(***************************************************************************)
(* Bounds of the model                                                     *)
(***************************************************************************)
MaxBig == 3            \* files in the BIG folder
MaxSmall == 5          \* files in the SMALL folder
MaxUndecodable == 1    \* files of both folders that do not open
MaxDim == 6            \* sides 1..MaxDim of a fitted image
MaxQuad == 2           \* sides 1..MaxQuad of a region
MaxMainFiles == 3      \* files in each folder of a run of main
MaxOptSide == 2        \* sides 1..MaxOptSide of an image of a 1x2 chunk
MaxUploadFiles == 2    \* files to upload
MaxCheckFiles == 2     \* files to check
MaxMatches == 2        \* assets in an answer of the server

\* the values of the variables a specification does not use
NoPath == SheetPath("", 0)
NoFit == [rotated |-> FALSE, new_w |-> 0, new_h |-> 0, raised |-> FALSE]
NoFolder == [exists |-> FALSE, files |-> {}]

IdleCheck ==
    /\ check_files = <<>> /\ DELETE_FILES = FALSE /\ check_i = 0
    /\ search_result = NoMatches /\ asset_id = NoValue
    /\ item_albums = <<>>
    /\ deleted_files = <<>> /\ found_files = <<>>
    /\ directory = {}
    /\ searches = <<>> /\ album_failures = {} /\ remove_failures = {}

IdleUpload ==
    /\ files = <<>> /\ ALBUM_ID = FALSE /\ file_index = 0
    /\ attempt = 0 /\ exc_e = Unbound
    /\ success = FALSE /\ result = NoResult
    /\ uploaded_files = <<>> /\ warning_album_files = <<>> /\ failed_files = <<>>
    /\ upload_calls = <<>> /\ raised = "none"

IdleScheduler ==
    /\ big_files = NoneList /\ small_files = NoneList
    /\ big_sheets = 0 /\ small_sheets = 0
    /\ num_sheets = 0 /\ i = 0
    /\ composed = <<>>

IdleCall ==
    /\ idx = 0 /\ processed_images = <<>>
    /\ layout_1x2 = 0 /\ layout_2x1 = 0 /\ layout = "none"
    /\ sheet = NoSheet /\ ret = FALSE /\ disk = {}

IdleFit == img = <<1, 1>> /\ quad = <<1, 1>> /\ img_resized = NoFit

IdlePrint ==
    /\ print_files = FALSE /\ lp_fails = {}
    /\ image_files = NoneList /\ printed_count = 0 /\ printed = <<>>

(***************************************************************************)
(* Spec: a run of process_folders.  Every image is a 3000x2000 photo; a    *)
(* folder is missing or holds up to MaxBig (MaxSmall) files, of which some *)
(* do not open; the first sheet of the SMALL pass may be unwritable.       *)
(***************************************************************************)
PhotoFiles(n, bad) ==
    {IF k \in bad THEN BadFile(k) ELSE ImageFile(k, 3000, 2000) : k \in 1..n}

FolderChoices(max) ==
    {NoFolder} \cup
    UNION { { [exists |-> TRUE, files |-> PhotoFiles(n, bad)] : bad \in SUBSET (1..n) }
            : n \in 0..max }

Undecodable(folder) == Cardinality({f \in folder.files : ~f.ok})

Init ==
    /\ pc = "process_folders"
    /\ folders \in {c \in [big : FolderChoices(MaxBig), small : FolderChoices(MaxSmall)] :
                      Undecodable(c.big) + Undecodable(c.small) <= MaxUndecodable}
    /\ unwritable \in {{}, {SheetPath(SMALL_PREFIX, 1)}}
    /\ IdleScheduler /\ IdleCall /\ IdleFit /\ IdlePrint /\ IdleUpload /\ IdleCheck
    /\ log = <<>>
    /\ image_paths = <<>> /\ output_path = NoPath /\ caller = "process_folders"

Next ==
    \/ ProcessBig \/ BigChunk \/ BigReturn \/ BigDone
    \/ ProcessSmall \/ SmallChunk \/ SmallReturn \/ SmallDone
    \/ Open1x2 \/ NoImages1x2 \/ FullSheet1x2 \/ SelectLayout1x2 \/ Paste1x2 \/ Save1x2
    \/ NewSheet2x2 \/ Place2x2 \/ Save2x2

Spec == Init /\ [][Next]_vars

\* process_folders has a statement left to run; Next is enabled exactly then
Running == pc # "done"

\* SpecLive: the interpreter runs the next statement as long as there is
\* one.  This is WF_vars(Next), written []<>~ENABLED <<Next>>_vars \/
\* []<><<Next>>_vars with Running for ENABLED <<Next>>_vars.
SpecLive == Init /\ [][Next]_vars /\ ([]<>~Running \/ []<><<Next>>_vars)

(***************************************************************************)
(* SpecOpt: one call of create_1x2_sheet on a chunk of one or two files    *)
(***************************************************************************)
OptSizes ==
    ((1..MaxOptSide) \X (1..MaxOptSide)) \cup
    { <<3000, 2000>>, <<2000, 3000>>, <<2000, 1000>>, <<1600, 1000>>,
      <<2500, 1000>>, <<1399, 700>>, <<1401, 700>>, <<3, 4>>, <<7, 21>>,
      <<1, 1801>> }

OptFiles(k) == {BadFile(k)} \cup {ImageFile(k, s[1], s[2]) : s \in OptSizes}

OptChunks ==
    {<<a>> : a \in OptFiles(1)} \cup {<<a, b>> : a \in OptFiles(1), b \in OptFiles(2)}

InitOpt ==
    /\ pc = "1x2_open"
    /\ image_paths \in OptChunks
    /\ output_path = SheetPath(BIG_PREFIX, 1)
    /\ caller = "test"
    /\ unwritable \in {{}, {output_path}}
    /\ folders = [big |-> NoFolder, small |-> NoFolder]
    /\ IdleScheduler /\ IdleCall /\ IdleFit /\ IdlePrint /\ IdleUpload /\ IdleCheck
    /\ log = <<"call">>

NextOpt ==
    Open1x2 \/ NoImages1x2 \/ FullSheet1x2 \/ SelectLayout1x2 \/ Paste1x2 \/ Save1x2

SpecOpt == InitOpt /\ [][NextOpt]_vars

(***************************************************************************)
(* SpecGrid: one call of create_2x2_sheet on a chunk of one to four files  *)
(***************************************************************************)
GridSizes == { <<3000, 2000>>, <<1, 901>>, <<7, 21>> }

GridFiles(k) == {BadFile(k)} \cup {ImageFile(k, s[1], s[2]) : s \in GridSizes}

GridChunks ==
    UNION { {c \in [1..n -> GridFiles(1) \cup GridFiles(2) \cup GridFiles(3) \cup GridFiles(4)] :
               \A k \in 1..n : c[k].name = k}
            : n \in 1..SMALL_CHUNK_SIZE }

InitGrid ==
    /\ pc = "2x2_new"
    /\ image_paths \in GridChunks
    /\ output_path = SheetPath(SMALL_PREFIX, 1)
    /\ caller = "test"
    /\ unwritable \in {{}, {output_path}}
    /\ folders = [big |-> NoFolder, small |-> NoFolder]
    /\ IdleScheduler /\ IdleCall /\ IdleFit /\ IdlePrint /\ IdleUpload /\ IdleCheck
    /\ log = <<"call">>

NextGrid == NewSheet2x2 \/ Place2x2 \/ Save2x2

SpecGrid == InitGrid /\ [][NextGrid]_vars

(***************************************************************************)
(* SpecSheet: one call of either compositor                                *)
(***************************************************************************)
InitSheet == InitOpt \/ InitGrid

NextSheet == NextOpt \/ NextGrid

SpecSheet == InitSheet /\ [][NextSheet]_vars

(***************************************************************************)
(* SpecFit: one call of fit_image_to_quad                                  *)
(***************************************************************************)
Dims == (1..MaxDim) \cup {21, 901, 2000, 3000, 4160, 6240}

Regions ==
    { <<OUTPUT_WIDTH_PX, OUTPUT_HEIGHT_PX>>, LayoutQuad("1x2"), LayoutQuad("2x1"),
      GridQuad, <<7, 7>>, <<600, 600>> }
    \cup ((1..MaxQuad) \X (1..MaxQuad))

InitFit ==
    /\ pc = "fit"
    /\ img \in Dims \X Dims
    /\ quad \in Regions
    /\ img_resized = NoFit
    /\ unwritable = {}
    /\ folders = [big |-> NoFolder, small |-> NoFolder]
    /\ image_paths = <<>> /\ output_path = NoPath /\ caller = "test"
    /\ IdleScheduler /\ IdleCall /\ IdlePrint /\ IdleUpload /\ IdleCheck
    /\ log = <<>>

NextFit == FitCall

SpecFit == InitFit /\ [][NextFit]_vars

(***************************************************************************)
(* SpecMain: a run of main: process_folders, then print_photos.  Each      *)
(* folder holds up to MaxMainFiles files; the output folder is empty or    *)
(* holds a sheet of an earlier run; the first SMALL sheet may be           *)
(* unwritable; lp may fail for the first sheet of a pass.                  *)
(***************************************************************************)
MainFolders == { [exists |-> TRUE, files |-> PhotoFiles(n, {})] : n \in 0..MaxMainFiles }

\* the BIG folder may also hold one file only, which does not open
MainBigFolders == MainFolders \cup { [exists |-> TRUE, files |-> PhotoFiles(1, {1})] }

InitMain ==
    /\ pc = "process_folders"
    /\ folders \in [big : MainBigFolders, small : MainFolders]
    /\ unwritable \in {{}, {SheetPath(SMALL_PREFIX, 1)}}
    /\ print_files \in BOOLEAN
    /\ lp_fails \in { {}, {SheetPath(BIG_PREFIX, 1)},
                      {SheetPath(BIG_PREFIX, 1), SheetPath(SMALL_PREFIX, 1)} }
    /\ disk \in { {}, {[path |-> SheetPath(BIG_PREFIX, 2), sheet |-> <<>>]} }
    /\ IdleScheduler /\ IdleFit /\ IdleUpload /\ IdleCheck
    /\ idx = 0 /\ processed_images = <<>>
    /\ layout_1x2 = 0 /\ layout_2x1 = 0 /\ layout = "none"
    /\ sheet = NoSheet /\ ret = FALSE
    /\ image_files = NoneList /\ printed_count = 0 /\ printed = <<>>
    /\ log = <<>>
    /\ image_paths = <<>> /\ output_path = NoPath /\ caller = "process_folders"

NextMain == Next \/ MainPrint \/ PrintOne \/ PrintDone

SpecMain == InitMain /\ [][NextMain]_vars

(***************************************************************************)
(* SpecUpload: a run of main of immich/upload.py over up to MaxUploadFiles *)
(* files, with or without an album; every call of upload_file and of       *)
(* add_asset_to_album succeeds or raises.                                  *)
(***************************************************************************)
UploadNames == <<"a.jpg", "b.jpg", "c.jpg", "d.jpg">>

InitUpload ==
    /\ pc = "upload_loop"
    /\ files \in {SubSeq(UploadNames, 1, n) : n \in 0..MaxUploadFiles}
    /\ ALBUM_ID \in BOOLEAN
    /\ file_index = 0
    /\ attempt = 0 /\ exc_e = Unbound
    /\ success = FALSE /\ result = NoResult
    /\ uploaded_files = <<>> /\ warning_album_files = <<>> /\ failed_files = <<>>
    /\ upload_calls = <<>> /\ raised = "none"
    /\ unwritable = {}
    /\ folders = [big |-> NoFolder, small |-> NoFolder]
    /\ image_paths = <<>> /\ output_path = NoPath /\ caller = "none"
    /\ IdleScheduler /\ IdleCall /\ IdleFit /\ IdlePrint /\ IdleCheck
    /\ log = <<>>

NextUpload == UploadCall \/ UploadAttempt \/ UploadGiveUp \/ UploadRecord \/ UploadSummary

SpecUpload == InitUpload /\ [][NextUpload]_vars

(***************************************************************************)
(* SpecCheck: a run of main of immich/check-uploaded.py over up to         *)
(* MaxCheckFiles files, with or without -d.  A search raises or is         *)
(* answered with up to MaxMatches assets, each with an id, an empty id or  *)
(* none; the count of an answer is the number of its items.                *)
(***************************************************************************)
Assets == {NoValue, Value(""), Value("asset")}

RECURSIVE SeqsUpTo(_, _)
SeqsUpTo(S, n) ==
    IF n = 0 THEN {<<>>}
    ELSE LET shorter == SeqsUpTo(S, n - 1)
         IN  shorter \cup {Append(q, x) : q \in shorter, x \in S}

Responses ==
    {[raised |-> TRUE, count |-> 0, items |-> <<>>]} \cup
    {[raised |-> FALSE, count |-> Len(items), items |-> items] :
        items \in SeqsUpTo(Assets, MaxMatches)}

InitCheck ==
    /\ pc = "check_loop"
    /\ check_files \in {SubSeq(UploadNames, 1, n) : n \in 0..MaxCheckFiles}
    /\ DELETE_FILES \in BOOLEAN
    /\ check_i = 0
    /\ search_result = NoMatches /\ asset_id = NoValue
    /\ item_albums = <<>>
    /\ deleted_files = <<>> /\ found_files = <<>>
    /\ directory = {check_files[k] : k \in 1..Len(check_files)}
    /\ searches = <<>> /\ album_failures = {} /\ remove_failures = {}
    /\ unwritable = {}
    /\ folders = [big |-> NoFolder, small |-> NoFolder]
    /\ image_paths = <<>> /\ output_path = NoPath /\ caller = "none"
    /\ IdleScheduler /\ IdleCall /\ IdleFit /\ IdlePrint /\ IdleUpload
    /\ log = <<>>

NextCheck ==
    CheckSearch(Responses) \/ CheckFilter \/ CheckAlbums \/ CheckDelete \/ CheckSummary

SpecCheck == InitCheck /\ [][NextCheck]_vars

(***************************************************************************)
(* The fitter (SpecFit)                                                    *)
(***************************************************************************)
FitDone == pc \in {"fit_returned", "fit_raised"}

\* the sides of the image in the orientation the fitter chose
ChosenW == IF img_resized.rotated THEN img[2] ELSE img[1]
ChosenH == IF img_resized.rotated THEN img[1] ELSE img[2]

\* the exact scales min(region_w/w, region_h/h) of both orientations
ExactScaleNormal == RatMin(<<quad[1], img[1]>>, <<quad[2], img[2]>>)
ExactScaleRotated == RatMin(<<quad[1], img[2]>>, <<quad[2], img[1]>>)

\* C1: for positive image and region sizes the size fit_image_to_quad
\* computes is within the region: output_w <= region_w and
\* output_h <= region_h, in either orientation.
C1_FitWithinRegion ==
    FitDone => /\ img_resized.new_w <= quad[1]
               /\ img_resized.new_h <= quad[2]

\* a 3000x2000 image fitted, rotated, into 900x1200, touching its height
C1_Witness ==
    /\ pc = "fit_returned"
    /\ img = <<3000, 2000>> /\ quad = <<900, 1200>>
    /\ img_resized.rotated /\ img_resized.new_h = quad[2]

\* C2: the orientation is kept exactly when area_normal >= area_rotated
\* and the image is rotated exactly when area_rotated is strictly greater;
\* both areas are img_w * img_h times the square of their scale, so the
\* areas compare as the exact scales s_n and s_r do.  A tie, as in any
\* square region, never rotates.
C2_RotateIffStrictlyLarger ==
    FitDone => /\ img_resized.rotated = ~RatLeq(ExactScaleRotated, ExactScaleNormal)
               /\ (quad[1] = quad[2] => ~img_resized.rotated)

\* a tie that keeps the orientation: a 3000x2000 image in a square region
C2_Witness ==
    /\ pc = "fit_returned"
    /\ img = <<3000, 2000>> /\ quad = <<600, 600>>
    /\ ~img_resized.rotated

\* C3: in the chosen orientation (w', h'), with the exact scale
\* s = min(region_w/w', region_h/h'), the output is
\* (floor(w'*s), floor(h'*s)); a 3000x2000 image in a 900x1200 region is
\* rotated and comes out 800x1200.
C3_ExactFloor ==
    pc = "fit_returned" =>
        LET s == RatMin(<<quad[1], ChosenW>>, <<quad[2], ChosenH>>)
        IN  /\ img_resized.new_w = RatFloorTimes(ChosenW, s)
            /\ img_resized.new_h = RatFloorTimes(ChosenH, s)
            /\ (img = <<3000, 2000>> /\ quad = <<900, 1200>>
                  => /\ img_resized.rotated
                     /\ img_resized.new_w = 800 /\ img_resized.new_h = 1200)

(***************************************************************************)
(* The layout selector and the optimized sheet (SpecOpt)                   *)
(***************************************************************************)
\* the files of image_paths[:2] that open, in order
Decoded == SelectSeq(Slice(image_paths, 0, 2), LAMBDA f : f.ok)

\* the layout has just been chosen, nothing is pasted yet
LayoutSelected == pc = "1x2_paste" /\ idx = 0

\* total_area of a layout as the loop of lines 227-238 leaves it
FloatTotal(l) == TotalArea(processed_images, Min2(Len(processed_images), 2), l)

\* C4: for two decoded images the sheet uses the partition whose total of
\* the best fitted areas max(area_normal, area_rotated), summed over both
\* images, is the larger of the two totals.
C4_LargerTotalWins ==
    LayoutSelected =>
        /\ (FCmp(FloatTotal("2x1"), FloatTotal("1x2")) > 0 => layout = "2x1")
        /\ (FCmp(FloatTotal("1x2"), FloatTotal("2x1")) > 0 => layout = "1x2")

\* the exact best scale of an image in the region of a layout
ExactBestScale(f, l) ==
    RatMax(RatMin(<<LayoutQuad(l)[1], f.w>>, <<LayoutQuad(l)[2], f.h>>),
           RatMin(<<LayoutQuad(l)[1], f.h>>, <<LayoutQuad(l)[2], f.w>>))

\* two images of the same dimensions whose best area (w * h * scale^2) is
\* the same in both partitions
IdenticalTie ==
    /\ processed_images[1].w = processed_images[2].w
    /\ processed_images[1].h = processed_images[2].h
    /\ RatEq(ExactBestScale(processed_images[1], "1x2"),
             ExactBestScale(processed_images[1], "2x1"))

FullCanvasPaste ==
    Paste(Decoded[1], 0,
          fit_image_to_quad(Decoded[1].w, Decoded[1].h,
                            OUTPUT_WIDTH_PX, OUTPUT_HEIGHT_PX),
          0, 0, OUTPUT_WIDTH_PX, OUTPUT_HEIGHT_PX)

\* C6: whenever exactly one image of the chunk decodes (a one-file chunk,
\* or a two-file chunk whose first or second file fails to decode), no
\* partition is selected and that image is fitted against and centred in
\* the full 1800x1200 canvas, never a half-canvas region: the sheet about
\* to be saved, and the sheet persisted when the save works, holds exactly
\* that placement.
C6_SingleImageFullCanvas ==
    (Len(Decoded) = 1 /\ pc \in {"1x2_save", "returned"}) =>
        /\ layout = "none"
        /\ (pc = "1x2_save" => sheet.pastes = <<FullCanvasPaste>>)
        /\ (pc = "returned" /\ output_path \notin unwritable =>
              /\ ret
              /\ disk = {[path |-> output_path, sheet |-> <<FullCanvasPaste>>]})

\* C7: when none of the chunk's images decodes the composition returns
\* failure, and no sheet is ever created or persisted to the output path.
C7_NoImageNoSheet ==
    Len(Decoded) = 0 =>
        /\ ~sheet.exists
        /\ disk = {}
        /\ layout = "none"
        /\ (pc = "returned" => ~ret)

\* a chunk of two files, neither of which opens, has returned False
C7_Witness ==
    /\ Len(image_paths) = 2 /\ Len(Decoded) = 0
    /\ pc = "returned" /\ ~ret
    /\ disk = {}

(***************************************************************************)
(* The grid sheet (SpecGrid)                                               *)
(***************************************************************************)
\* the positions 1..4 of the chunk whose file opens
GridDecoded == {k \in 1..Min2(Len(image_paths), 4) : image_paths[k].ok}

\* a paste sits in the quadrant of its slot and shows the file of that slot
InOwnQuadrant(p) ==
    /\ p.slot + 1 \in GridDecoded
    /\ p.name = image_paths[p.slot + 1].name
    /\ p.x - (GridQuad[1] - p.w) \div 2 = GridPositions[p.slot + 1][1]
    /\ p.y - (GridQuad[2] - p.h) \div 2 = GridPositions[p.slot + 1][2]

\* C8: for a chunk of n <= 4 files of which k >= 1 decode, the composition
\* reports success and exactly k quadrants receive an image: the file at
\* input position i is placed in quadrant i (top-left, top-right,
\* bottom-left, bottom-right); a decode failure leaves only its own
\* quadrant blank.  Stated for an output path that can be written.
C8_PartialGridSucceeds ==
    (pc = "returned" /\ output_path \notin unwritable /\ GridDecoded # {}) =>
        /\ ret
        /\ \E f \in disk :
              /\ f.path = output_path
              /\ Len(f.sheet) = Cardinality(GridDecoded)
              /\ \A p \in 1..Len(f.sheet) : InOwnQuadrant(f.sheet[p])
              /\ \A p, q \in 1..Len(f.sheet) :
                    f.sheet[p].slot = f.sheet[q].slot => p = q

(***************************************************************************)
(* The batch scheduler (Spec)                                              *)
(***************************************************************************)
\* the chunks a pass has handed to its compositor, in order
ChunksOf(pass) == SelectSeq(composed, LAMBDA c : c.pass = pass)

RECURSIVE Concat(_)
Concat(chunks) ==
    IF chunks = <<>> THEN <<>> ELSE chunks[1].chunk \o Concat(Tail(chunks))

\* the list a pass works on, its chunk size, its count, its prefix
ListOf(pass) == SortedFiles(folders[pass].files)
ChunkSizeOf(pass) == IF pass = "big" THEN BIG_CHUNK_SIZE ELSE SMALL_CHUNK_SIZE
CountOf(pass) == IF pass = "big" THEN big_sheets ELSE small_sheets
PrefixOf(pass) == IF pass = "big" THEN BIG_PREFIX ELSE SMALL_PREFIX
Other(pass) == IF pass = "big" THEN "small" ELSE "big"

CeilDiv(n, c) == (n + c - 1) \div c

\* the chunks of a finished pass partition its list
Chunked(pass) ==
    LET ch == ChunksOf(pass)
        c  == ChunkSizeOf(pass)
    IN  /\ Len(ch) = CeilDiv(Len(ListOf(pass)), c)
        /\ Concat(ch) = ListOf(pass)
        /\ \A k \in 1..Len(ch) :
              /\ Len(ch[k].chunk) \in 1..c
              /\ (k < Len(ch) => Len(ch[k].chunk) = c)
        /\ (ListOf(pass) = <<>> => ch = <<>> /\ CountOf(pass) = 0)

\* C9: for a list of n files and chunk size c (2 for the optimized pass,
\* 4 for the grid pass) the scheduler composes exactly ceil(n/c) chunks;
\* they are contiguous, in the order of the list, and their concatenation
\* is the whole list (so, the names of a list being distinct, pairwise
\* disjoint), every chunk but possibly the last having exactly c files;
\* 0 files give 0 chunks and a zero count.
C9_Chunking == pc = "done" => Chunked("big") /\ Chunked("small")

\* 5 files with c = 4 have given chunks of sizes 4 and 1
C9_Witness ==
    /\ pc = "done"
    /\ Len(ListOf("small")) = 5
    /\ Len(ChunksOf("small")) = 2
    /\ Len(ChunksOf("small")[1].chunk) = 4
    /\ Len(ChunksOf("small")[2].chunk) = 1

\* the list of a pass is absent (directory not found) or empty
Skipped(pass) == ~folders[pass].exists \/ folders[pass].files = {}

\* the k-th chunk of a pass composes when run on its own: its output can
\* be written and, for the optimized pass, one of its files opens (every
\* image of this specification is a 3000x2000 photo, which always fits)
ComposesAlone(pass, k) ==
    LET c     == ChunkSizeOf(pass)
        chunk == Slice(ListOf(pass), (k - 1) * c, k * c)
    IN  /\ SheetPath(PrefixOf(pass), k) \notin unwritable
        /\ (pass = "big" => \E j \in 1..Len(chunk) : chunk[j].ok)

CountAlone(pass) ==
    Cardinality({k \in 1..CeilDiv(Len(ListOf(pass)), ChunkSizeOf(pass)) :
                   ComposesAlone(pass, k)})

\* C10: the two passes are independent: when one list is absent or empty
\* that pass yields count 0, and the other pass still runs over all of its
\* chunks and returns the count it would return on its own.
C10_PassesIndependent ==
    pc = "done" =>
        \A pass \in {"big", "small"} :
            Skipped(pass) =>
                /\ CountOf(pass) = 0
                /\ ChunksOf(pass) = <<>>
                /\ Len(ChunksOf(Other(pass))) =
                       CeilDiv(Len(ListOf(Other(pass))), ChunkSizeOf(Other(pass)))
                /\ \A k \in 1..Len(ChunksOf(Other(pass))) :
                       ChunksOf(Other(pass))[k].returned
                /\ CountOf(Other(pass)) = CountAlone(Other(pass))

\* the BIG folder is missing and the SMALL pass has made its two sheets
C10_Witness ==
    /\ pc = "done"
    /\ ~folders.big.exists
    /\ Len(ListOf("small")) = 5
    /\ big_sheets = 0 /\ small_sheets = 2

\* the chunks of a pass that composed: create_*_sheet returned True
Succeeded(pass) == SelectSeq(ChunksOf(pass), LAMBDA c : c.returned /\ c.result)

\* a pass has attempted every chunk of its list and counted the successes
Tallied(pass) ==
    /\ Len(ChunksOf(pass)) = CeilDiv(Len(ListOf(pass)), ChunkSizeOf(pass))
    /\ \A k \in 1..Len(ChunksOf(pass)) : ChunksOf(pass)[k].returned
    /\ CountOf(pass) = Len(Succeeded(pass))

\* C11: for any file lists and any pattern of decode failures and
\* sheet-level failures a run of process_folders always completes; a failed
\* chunk is skipped, every later chunk of the same pass and every chunk of
\* the other pass is still attempted, and the count returned for each pass
\* is the number of that pass's chunks whose composition returned success.
C11_AlwaysCompletes ==
    /\ <>(pc = "done")
    /\ [](pc = "done" => Tallied("big") /\ Tallied("small"))

\* the first sheet of the SMALL pass failed and the second one was made
C11_Witness ==
    /\ pc = "done"
    /\ Len(ChunksOf("small")) = 2
    /\ ~ChunksOf("small")[1].result
    /\ ChunksOf("small")[2].result
    /\ small_sheets = 1

(***************************************************************************)
(* Printing (SpecMain)                                                     *)
(***************************************************************************)
\* the sheets this run has finished: their composition returned True
FinishedSheets ==
    {composed[k].path : k \in {j \in 1..Len(composed) :
                                 composed[j].returned /\ composed[j].result}}

\* the lp commands issued for a file
Attempts(path) == Cardinality({k \in 1..Len(printed) : printed[k].path = path})

\* C12: when printing is requested no print command is issued before
\* every chunk of both passes has been composed and persisted; afterwards
\* the command is attempted exactly once for each finished sheet, and a
\* failed attempt does not prevent the attempts for the remaining sheets;
\* when printing is not requested no print command is ever issued.
C12_PrintAfterAll ==
    /\ printed # <<>> =>
          /\ print_files
          /\ pc \in {"print_loop", "exit"}
          /\ Tallied("big") /\ Tallied("small")
          /\ FinishedSheets \subseteq {f.path : f \in disk}
    /\ ~print_files => printed = <<>>
    /\ \A path \in FinishedSheets : Attempts(path) <= 1
    /\ (pc = "exit" /\ print_files) =>
          \A path \in FinishedSheets : Attempts(path) = 1

\* lp failed for the first sheet and was run for the sheets after it
C12_Witness ==
    /\ pc = "exit" /\ print_files
    /\ Len(printed) >= 2
    /\ ~printed[1].ok /\ printed[1].path \in FinishedSheets
    /\ printed[Len(printed)].ok /\ printed[Len(printed)].path \in FinishedSheets
    /\ printed_count = Len(printed) - 1

(***************************************************************************)
(* The names of the sheets (Spec)                                          *)
(***************************************************************************)
\* k written with three digits, for k below 1000
ThreeDigits(k) == <<k \div 100, (k \div 10) % 10, k % 10>>

\* the name of the k-th chunk of a pass
ChunkName(pass, k) == [prefix |-> PrefixOf(pass), index |-> ThreeDigits(k)]

\* the names of the sheets a pass has produced, in the order of production
ProducedNames(pass) ==
    [k \in 1..Len(Succeeded(pass)) |-> Succeeded(pass)[k].path]

\* C13 as claimed: the k-th chunk of a pass is written to the prefix of
\* its mode and k zero-padded to three digits, no two chunks of a run are
\* written to the same name, and the names of the sheets produced by a
\* pass form the sequence 001, 002, ... .
C13_ProducedNamesSequential ==
    pc = "done" =>
        \A pass \in {"big", "small"} :
            /\ \A k \in 1..Len(ChunksOf(pass)) :
                  ChunksOf(pass)[k].path = ChunkName(pass, k)
            /\ \A k \in 1..Len(ProducedNames(pass)) :
                  ProducedNames(pass)[k] = ChunkName(pass, k)

\* C13, amended: the k-th chunk of a pass is written to the prefix of its
\* mode and k zero-padded to three digits (chunk 3 of the grid pass embeds
\* 003), so no two chunks of a run are written to the same name and the
\* names of the chunks of a pass form the sequence 001, 002, ...; the
\* sheets produced carry the names of the chunks that composed, so a
\* failed chunk leaves a gap in the names of the sheets.
C13_ChunkNames ==
    /\ SheetPath(SMALL_PREFIX, 3) = ChunkName("small", 3)
    /\ \A pass \in {"big", "small"} :
          \A k \in 1..Len(ChunksOf(pass)) :
              ChunksOf(pass)[k].path = ChunkName(pass, k)
    /\ \A j, k \in 1..Len(composed) : composed[j].path = composed[k].path => j = k
    /\ FinishedSheets \subseteq {f.path : f \in disk}
    /\ {f.path : f \in disk} \subseteq {composed[k].path : k \in 1..Len(composed)}
    /\ pc = "done" => {f.path : f \in disk} = FinishedSheets

\* the first SMALL chunk failed: the only sheet of the pass is 002
C13_Witness ==
    /\ pc = "done"
    /\ Len(ChunksOf("small")) = 2
    /\ ProducedNames("small") = <<ChunkName("small", 2)>>
    /\ {f.path : f \in {g \in disk : g.path.prefix = SMALL_PREFIX}} = {ChunkName("small", 2)}

(***************************************************************************)
(* Failures of the fitter (SpecFit)                                        *)
(***************************************************************************)
\* C14: for all positive image dimensions and positive region dimensions
\* fit_image_to_quad returns a fitted image and raises no error.
C14_FitNeverFails ==
    FitDone => pc = "fit_returned" /\ ~img_resized.raised

\* the regions the program fits into: a quadrant, the two halves, the sheet
ProgramRegions ==
    { GridQuad, LayoutQuad("2x1"), LayoutQuad("1x2"),
      <<OUTPUT_WIDTH_PX, OUTPUT_HEIGHT_PX>> }

\* C18: for every image with positive integer dimensions and each of the
\* regions 900x600, 900x1200, 1800x600 and 1800x1200, both dimensions
\* fit_image_to_quad computes are at least 1 pixel, also for very
\* elongated images.
C18_AtLeastOnePixel ==
    (FitDone /\ quad \in ProgramRegions) =>
        img_resized.new_w >= 1 /\ img_resized.new_h >= 1

(***************************************************************************)
(* The geometry of a sheet (SpecSheet)                                     *)
(***************************************************************************)
\* the mode of the call: the grid writes small_sheet_, the optimizer big_sheet_
GridMode == output_path.prefix = SMALL_PREFIX

\* the region a paste is assigned to, in pixels of the 1800x1200 canvas:
\* a quadrant of the grid, the whole canvas for a single image, the left or
\* right half ("2x1"), the top or bottom half ("1x2")
AssignedRegion(p) ==
    IF GridMode
    THEN [x |-> 900 * (p.slot % 2), y |-> 600 * (p.slot \div 2), w |-> 900, h |-> 600]
    ELSE IF layout = "none"
    THEN [x |-> 0, y |-> 0, w |-> 1800, h |-> 1200]
    ELSE IF layout = "2x1"
    THEN [x |-> 900 * p.slot, y |-> 0, w |-> 900, h |-> 1200]
    ELSE [x |-> 0, y |-> 600 * p.slot, w |-> 1800, h |-> 600]

\* the pastes of the sheet in memory and of every persisted sheet
AllPastes ==
    {sheet.pastes[k] : k \in 1..Len(sheet.pastes)} \cup
    UNION { {f.sheet[k] : k \in 1..Len(f.sheet)} : f \in disk }

\* the margins of a paste inside its region
MarginLeft(p)   == p.x - AssignedRegion(p).x
MarginRight(p)  == AssignedRegion(p).x + AssignedRegion(p).w - (p.x + p.w)
MarginTop(p)    == p.y - AssignedRegion(p).y
MarginBottom(p) == AssignedRegion(p).y + AssignedRegion(p).h - (p.y + p.h)

\* C15: in every mode each fitted image is pasted centred in its region:
\* its origin is (region_x + floor((region_w - fitted_w)/2), region_y +
\* floor((region_h - fitted_h)/2)), so the left and right margins differ by
\* at most one pixel, and so do the top and bottom margins.
C15_PasteCentred ==
    \A p \in AllPastes :
        /\ p.x = AssignedRegion(p).x + (AssignedRegion(p).w - p.w) \div 2
        /\ p.y = AssignedRegion(p).y + (AssignedRegion(p).h - p.h) \div 2
        /\ MarginRight(p) - MarginLeft(p) \in {0, 1}
        /\ MarginBottom(p) - MarginTop(p) \in {0, 1}

\* a grid sheet with an image in its last quadrant whose margins cannot be
\* equal: one pixel more on the right than on the left
C15_Witness ==
    /\ GridMode
    /\ \E p \in AllPastes :
          /\ p.slot = 3
          /\ MarginRight(p) = MarginLeft(p) + 1
          /\ MarginTop(p) = MarginBottom(p) /\ MarginTop(p) > 0

\* two rectangles [x, x + w) x [y, y + h) have no pixel in common
Apart(a, b) ==
    \/ a.x + a.w <= b.x \/ b.x + b.w <= a.x
    \/ a.y + a.h <= b.y \/ b.y + b.h <= a.y

\* the pastes of one sheet, in memory or persisted
Sheets == {sheet.pastes} \cup {f.sheet : f \in disk}

\* C17: on every sheet, in every mode, the rectangle covered by each
\* pasted image lies inside the region assigned to it (offsets are not
\* negative, origin plus fitted size does not pass the region's far
\* edges); the regions of a sheet are disjoint and inside the 1800x1200
\* canvas, so no two pasted images overlap and none extends past the canvas.
C17_PasteInsideRegion ==
    \A ps \in Sheets :
        /\ \A k \in 1..Len(ps) :
              /\ MarginLeft(ps[k]) >= 0 /\ MarginRight(ps[k]) >= 0
              /\ MarginTop(ps[k]) >= 0 /\ MarginBottom(ps[k]) >= 0
              /\ ps[k].x >= 0 /\ ps[k].x + ps[k].w <= OUTPUT_WIDTH_PX
              /\ ps[k].y >= 0 /\ ps[k].y + ps[k].h <= OUTPUT_HEIGHT_PX
        /\ \A j, k \in 1..Len(ps) :
              j # k => /\ Apart(AssignedRegion(ps[j]), AssignedRegion(ps[k]))
                       /\ Apart(ps[j], ps[k])

\* two images side by side, each filling its half of the sheet up to the
\* common edge at x = 900
C17_Witness ==
    /\ ~GridMode /\ layout = "2x1"
    /\ Len(sheet.pastes) = 2
    /\ sheet.pastes[1].x + sheet.pastes[1].w = 900
    /\ sheet.pastes[2].x = 900
    /\ sheet.pastes[1].h = 1200 /\ sheet.pastes[2].h = 1200

(***************************************************************************)
(* The life of a sheet (Spec)                                              *)
(***************************************************************************)
\* the positions of the log at which a chunk is handed to a compositor
Calls == {k \in 1..Len(log) : log[k] = "call"}

\* what was done for the chunk handed over at position k
Segment(k) ==
    LET later == {j \in Calls : j > k}
        last  == IF later = {} THEN Len(log)
                 ELSE (CHOOSE j \in later : \A n \in later : j <= n) - 1
    IN  SubSeq(log, k, last)

\* the positions of an operation in a segment
At(g, ops) == {n \in 1..Len(g) : g[n] \in ops}

Returns == {"return_true", "return_false"}
Saves == {"save", "save_failed"}

\* one chunk: at most one sheet, pasted up to four times after its
\* creation and before its only save, nothing but the return after the
\* save, and a True return only after the sheet was persisted once
OneSheet(g) ==
    /\ Cardinality(At(g, {"new"})) <= 1
    /\ Cardinality(At(g, {"paste"})) <= 4
    /\ Cardinality(At(g, Saves)) <= 1
    /\ Cardinality(At(g, Returns)) <= 1
    /\ \A n \in At(g, {"paste"}) \cup At(g, Saves) : \E c \in At(g, {"new"}) : c < n
    /\ \A n \in At(g, Saves) : \A m \in (n + 1)..Len(g) : m = Len(g) /\ g[m] \in Returns
    /\ \A n \in At(g, Returns) : n = Len(g)
    /\ (g[Len(g)] = "return_true" => Cardinality(At(g, {"save"})) = 1)

\* C16: for every chunk a sheet is created at most once, all pastes on it
\* (0..4) happen before its single save, no paste or second save follows
\* the save, and the next chunk's sheet is created only after the current
\* chunk's composition has returned; a chunk whose composition succeeds has
\* been persisted exactly once.
C16_SheetLifecycle ==
    /\ log # <<>> => log[1] = "call"
    /\ \A k \in Calls :
          /\ OneSheet(Segment(k))
          /\ (k + Len(Segment(k)) <= Len(log) => Segment(k)[Len(Segment(k))] \in Returns)

\* a full grid sheet was made and returned before the next chunk started
C16_Witness ==
    /\ pc = "done"
    /\ \E k \in Calls :
          /\ Segment(k) = <<"call", "new", "paste", "paste", "paste", "paste",
                            "save", "return_true">>
          /\ k + Len(Segment(k)) \in Calls

(***************************************************************************)
(* Chunks without a decodable image (Spec)                                 *)
(***************************************************************************)
\* a non-empty chunk none of whose files decodes
NoneDecodes(chunk) == chunk # <<>> /\ \A k \in 1..Len(chunk) : ~chunk[k].ok

\* the blank sheets and the files on disk under a path
BlankSheetAt(path) == \E f \in disk : f.path = path /\ f.sheet = <<>>
NothingAt(path) == \A f \in disk : f.path # path

\* C19: in grid4 mode a non-empty chunk in which no image decodes still
\* returns success, persists an all-background sheet and is counted as a
\* produced sheet, unlike optimized2 mode where a chunk with no decodable
\* image returns failure and persists nothing.  Stated for an output path
\* that can be written.
C19_BlankGridSheetCounts ==
    /\ (pc = "small_return" /\ NoneDecodes(image_paths) /\ output_path \notin unwritable) =>
          ret /\ BlankSheetAt(output_path)
    /\ (pc = "big_return" /\ NoneDecodes(image_paths)) =>
          ~ret /\ NothingAt(output_path)
    /\ \A k \in 1..Len(composed) :
          LET c == composed[k] IN
          (c.returned /\ NoneDecodes(c.chunk)) =>
             IF c.pass = "small"
             THEN c.path \notin unwritable =>
                     /\ c.result /\ BlankSheetAt(c.path)
                     /\ small_sheets >= 1
                     /\ small_sheets = Len(Succeeded("small"))
             ELSE ~c.result /\ NothingAt(c.path)

\* the last chunk of the grid pass held one file, which did not decode: its
\* blank sheet is on disk and counted with the full sheet before it
C19_Witness ==
    /\ pc = "done"
    /\ \E k \in 1..Len(composed) :
          /\ composed[k].pass = "small" /\ NoneDecodes(composed[k].chunk)
          /\ composed[k].result /\ BlankSheetAt(composed[k].path)
    /\ small_sheets = 2
    /\ big_sheets = 0

(***************************************************************************)
(* Retried uploads (SpecUpload)                                            *)
(***************************************************************************)
\* the outcomes of the calls of upload_file for a file, in order
CallsOf(f) == SelectSeq(upload_calls, LAMBDA c : c.file = f)

\* upload_with_retry has finished with the file
Left(f) ==
    \E k \in 1..Len(files) :
       /\ files[k] = f
       /\ \/ k <= file_index
          \/ k = file_index + 1 /\ pc \in {"upload_record", "upload_crashed"}

\* every attempt for the file failed
AllFailed(f) ==
    /\ Len(CallsOf(f)) = MAX_RETRIES
    /\ \A n \in 1..MAX_RETRIES : ~CallsOf(f)[n].ok

Recorded(list, f) == \E n \in 1..Len(list) : list[n] = f
RecordedFailed(f) == \E n \in 1..Len(failed_files) : failed_files[n][1] = f

\* C20: upload_with_retry attempts the upload of a file at most
\* max_retries (10) times, stops at the first successful attempt and
\* returns (True, result); when every attempt fails it returns (False,
\* error text), so that main records the file as failed and goes on to
\* upload the next file.
C20_RetryThenRecord ==
    /\ raised = "none"
    /\ \A k \in 1..Len(files) :
          LET f == files[k]
              calls == CallsOf(f)
          IN  /\ Len(calls) <= MAX_RETRIES
              /\ \A n \in 1..Len(calls) : calls[n].ok => n = Len(calls)
              /\ (Left(f) /\ calls # <<>> /\ calls[Len(calls)].ok) =>
                    IF k = file_index + 1
                    THEN success /\ result.kind = "json"
                    ELSE Recorded(uploaded_files, f) \/ Recorded(warning_album_files, f)
              /\ (Left(f) /\ AllFailed(f)) =>
                    IF k = file_index + 1
                    THEN pc = "upload_record" /\ ~success /\ result.kind = "text"
                    ELSE RecordedFailed(f)
    /\ pc = "upload_exit" =>
          Len(uploaded_files) + Len(warning_album_files) + Len(failed_files) = Len(files)

(***************************************************************************)
(* Deleting what is already uploaded (SpecCheck)                           *)
(***************************************************************************)
\* the answer of the server to the search for a file, once searched
Searched(f) == \E n \in 1..Len(searches) : searches[n].file = f
AnswerFor(f) == searches[CHOOSE n \in 1..Len(searches) : searches[n].file = f]

\* the search returned exactly one asset, which carries a non-empty id
OneAssetWithId(f) ==
    /\ Searched(f)
    /\ ~AnswerFor(f).raised
    /\ Len(AnswerFor(f).items) = 1
    /\ AnswerFor(f).items[1].present
    /\ AnswerFor(f).items[1].value # ""

\* main is done with the k-th file
Checked(k) == k <= check_i

\* the file is gone from the local folder
Removed(f) == f \notin directory

\* C21: check-uploaded removes a local file only when the delete flag is
\* set and the checksum search for that file returned exactly one asset
\* carrying a non-empty id; with the flag unset, or when the search fails,
\* returns zero matches, returns more than one match, or returns a match
\* without an id, the file is kept, and a failure of the album lookup never
\* causes a deletion to be skipped or an unmatched file to be deleted.
C21_DeleteOnlyMatched ==
    \A k \in 1..Len(check_files) :
       LET f == check_files[k] IN
       /\ Removed(f) => DELETE_FILES /\ OneAssetWithId(f)
       /\ (Checked(k) /\ (~DELETE_FILES \/ ~OneAssetWithId(f))) => ~Removed(f)
       /\ f \in album_failures => OneAssetWithId(f)
       /\ (Checked(k) /\ f \in album_failures /\ DELETE_FILES
             /\ f \notin remove_failures) => Removed(f)
       /\ Removed(f) <=> \E n \in 1..Len(deleted_files) : deleted_files[n] = f

\* with -d, a file whose album lookup failed was removed and a file with
\* two matches was kept
C21_Witness ==
    /\ pc = "check_exit"
    /\ DELETE_FILES
    /\ \E k \in 1..Len(check_files) :
          check_files[k] \in album_failures /\ Removed(check_files[k])
    /\ \E k \in 1..Len(check_files) :
          /\ Len(AnswerFor(check_files[k]).items) = 2
          /\ ~Removed(check_files[k])

====
